---- MODULE Spec2Model ----
(***************************************************************************)
(* A model of the caching DNS forwarder of src/main.py: the DnsCache       *)
(* (store + lock, get / put / gc / save), the per-request worker           *)
(* handle_query, and the main thread: the listener that starts one worker  *)
(* per datagram and, when interrupted, saves the cache and exits.          *)
(*                                                                         *)
(* Time is counted in ticks of 1/TicksPerSec second, so that time.time()   *)
(* can fall strictly between two whole seconds.  Every value that the code *)
(* holds as a float number of seconds (now, expire) is held here as a      *)
(* number of ticks; TTLs stay whole seconds, as in the DNS records.        *)
(***************************************************************************)
EXTENDS Integers, Sequences, FiniteSets, TLC

(* ------------------------------ bounds --------------------------------- *)
TicksPerSec == 2
MaxTTL == 1
MaxReq == 2
MaxTick == 2
MaxIdle == 1
MaxBurst == 3
MaxWait == 4

(* ------------------------- program constants --------------------------- *)
GC_INTERVAL == 10
SERVFAIL == 2
NOERROR == 0

(* The instants at which a thread can be scheduled: up to MaxTick ticks     *)
(* after a whole number (at most MaxIdle) of gc intervals.                 *)
Interval == GC_INTERVAL * TicksPerSec

Workers == {1, 2}
TTLs == 0..MaxTTL

(* ------------------------------- names --------------------------------- *)
(* A dns.name.Name is its tuple of labels; an absolute name ends with the  *)
(* empty root label.                                                       *)
NameA == <<"a", "">>
NameB == <<"b", "">>
NameC == <<"c", "">>
QNames == {NameA}
TypeA == 1
TypeNS == 2
ClassIN == 1

RECURSIVE JoinDot(_)
JoinDot(labels) ==
    IF Len(labels) = 1 THEN labels[1]
    ELSE labels[1] \o "." \o JoinDot(Tail(labels))

ToText(name) ==
    IF Len(name) = 0 THEN "@"
    ELSE IF name = <<"">> THEN "."
    ELSE JoinDot(name)

OtherName(name) == IF name = NameA THEN NameB ELSE NameA

RRset(name, rdtype, ttl, rdata) ==
    [name |-> name, rdtype |-> rdtype, rdclass |-> ClassIN, ttl |-> ttl, rdata |-> rdata]

(* ------------------------------ messages ------------------------------- *)
Question(name) == [name |-> name, rdtype |-> TypeA, rdclass |-> ClassIN]

Datagrams ==
    {[valid |-> FALSE, question |-> <<>>]}
    \cup {[valid |-> TRUE, question |-> <<>>]}
    \cup {[valid |-> TRUE, question |-> <<Question(n)>>] : n \in QNames}

NoMsg == [none |-> TRUE]

MakeResponse(req) ==
    [rcode |-> NOERROR, question |-> req.question,
     answer |-> <<>>, authority |-> <<>>, additional |-> <<>>]

(* SetRcode, leaving the status as it was. *)
SetRcodeNot(resp, rcode) == resp

SetRcode(resp, rcode) == [resp EXCEPT !.rcode = rcode]

(* What the upstream resolver may answer to a query for q. *)
Response(q, an, au, ad) ==
    [rcode |-> NOERROR, question |-> <<q>>,
     answer |-> an, authority |-> au, additional |-> ad]

UpstreamResponses(q) ==
    {Response(q, <<>>, <<>>, <<>>)}
    \cup {Response(q, <<RRset(q.name, q.rdtype, t, "ans")>>, <<>>, <<>>) : t \in TTLs}
    \cup {Response(q, <<>>,
                      <<RRset(q.name, TypeNS, MaxTTL, "ns")>>,
                      <<RRset(OtherName(q.name), TypeA, MaxTTL, "glue")>>)}
    \cup {Response(q, <<RRset(q.name, q.rdtype, MaxTTL, "ans")>>,
                      <<RRset(q.name, TypeNS, MaxTTL, "ns")>>,
                      <<RRset(OtherName(q.name), TypeA, MaxTTL, "glue")>>)}

(* The answers with at most one record: none, or one for the queried key. *)
PlainResponses(q) ==
    {Response(q, <<>>, <<>>, <<>>)}
    \cup {Response(q, <<RRset(q.name, q.rdtype, t, "ans")>>, <<>>, <<>>) : t \in TTLs}

(* The one answer of the burst scenario: one record for the queried key. *)
BurstResponses(q) ==
    {Response(q, <<RRset(q.name, q.rdtype, MaxTTL, "ans")>>, <<>>, <<>>)}

(* Sections, the answer section only. *)
SectionsAnswerOnly(m) == m.answer

Sections(m) == m.answer \o m.authority \o m.additional

(* ------------------------------- state --------------------------------- *)
VARIABLES
    clock,      \* time.time(), in ticks
    store,      \* DnsCache.store: key -> sequence of <<rrset, expire>>
    lock,       \* DnsCache.lock: FREE, or the thread that holds it
    pc,         \* position of each worker thread ("idle": no thread)
    data,       \* handle_query: data, the datagram received
    req,        \* handle_query: req, the decoded request
    key,        \* get / put: key
    now,        \* get: now
    entries,    \* handle_query: entries, what cache.get returned
    upstream_resp, \* handle_query: upstream_resp
    idx,        \* handle_query: position of the loops over the sections
    expire,     \* put: expire
    resp,       \* handle_query: resp
    asked,      \* calls of query.udp by the request of each worker
    stored,     \* the rrsets the request of each worker has put so far
    gcpc,       \* position of the gc thread
    gcnow,      \* gc: now
    gcwake,     \* gc: when time.sleep returns
    nreq,       \* datagrams received by the listener
    nsent,      \* datagrams sent by sock.sendto
    mainpc,     \* position of the main thread
    file,       \* CACHE_FILE: whether it exists, and the store pickled in it
    everPut,    \* history: every <<rrset, expire>> put so far, per key
    lastTtl,    \* history: <<key, rrset, expire>> -> the ttl get last returned for it
    prior       \* history: lastTtl as it was when the get of each worker began

wvars == <<pc, data, req, key, now, entries, upstream_resp, idx, expire, resp,
           asked, stored>>
gcvars == <<gcpc, gcnow, gcwake>>
hvars == <<everPut, lastTtl, prior>>
mvars == <<mainpc, file>>
vars == <<clock, store, lock, wvars, gcvars, nreq, nsent, mvars, hvars>>

GC == 0
FREE == 0 - 1
MAIN == 0 - 2

(* The process runs until the main thread returns: the worker threads and   *)
(* the gc thread are daemons.                                               *)
Running == mainpc # "exit"

(* ------------------------------ DnsCache ------------------------------- *)
EmptyStore == [k \in {} |-> <<>>]

(* KeyOf, leaving the record type out of the key. *)
KeyOfName(name, rdtype, rdclass) == <<ToText(name), TypeA, rdclass>>

KeyOf(name, rdtype, rdclass) == <<ToText(name), rdtype, rdclass>>

Lookup(s, k) == IF k \in DOMAIN s THEN s[k] ELSE <<>>

Assign(s, k, v) == [x \in DOMAIN s \cup {k} |-> IF x = k THEN v ELSE s[x]]

(* Live, dropping a record one second before its expiry. *)
LiveEarly(bucket, t) == SelectSeq(bucket, LAMBDA e : e[2] > t + TicksPerSec)

Live(bucket, t) == SelectSeq(bucket, LAMBDA e : e[2] > t)

(* Remaining, rounding up instead of truncating. *)
RemainingUp(exp, t) == (exp - t + TicksPerSec - 1) \div TicksPerSec

Remaining(exp, t) == (exp - t) \div TicksPerSec

GetResults(bucket, t) ==
    LET live == Live(bucket, t)
    IN  [i \in 1..Len(live) |-> <<live[i][1], Remaining(live[i][2], t)>>]

GetStore(s, k, t) == Assign(s, k, Live(Lookup(s, k), t))

PutExpire(t, rrset) == t + rrset.ttl * TicksPerSec

(* PutStore, replacing the bucket instead of appending to it. *)
PutStoreReplace(s, k, rrset, exp) == Assign(s, k, <<<<rrset, exp>>>>)

(* PutStore, skipping a record the bucket already holds. *)
PutStoreDedup(s, k, rrset, exp) ==
    IF \E i \in 1..Len(Lookup(s, k)) : s[k][i][1] = rrset
    THEN Assign(s, k, Lookup(s, k))
    ELSE Assign(s, k, Append(Lookup(s, k), <<rrset, exp>>))

PutStore(s, k, rrset, exp) == Assign(s, k, Append(Lookup(s, k), <<rrset, exp>>))

(* GcSweep, keeping the keys whose bucket became empty. *)
GcSweepKeepEmpty(s, t) == [k \in DOMAIN s |-> Live(s[k], t)]

GcSweep(s, t) ==
    [k \in {x \in DOMAIN s : Live(s[x], t) # <<>>} |-> Live(s[k], t)]

(* A bucket unpickled from a damaged cache file: one of its elements is not  *)
(* an (rrset, expire) pair, so `for rr, exp in` raises on it.               *)
CorruptBucket == <<<<"garbage">>>>

IsCorrupt(bucket) == \E i \in 1..Len(bucket) : Len(bucket[i]) # 2

(* The store that __init__ loads from such a file: its keys come first in   *)
(* the order of the dict.                                                   *)
LoadedStore == Assign(EmptyStore, KeyOf(NameC, TypeA, ClassIN), CorruptBucket)

(* What __init__ may load: the damaged file, or the file of a run that      *)
(* ended with an empty bucket under that key.                               *)
LoadedStores ==
    {LoadedStore, Assign(EmptyStore, KeyOf(NameC, TypeA, ClassIN), <<>>)}

(* The sweep raises at the first key: a loaded key whose bucket is corrupt. *)
GcRaises(s) == \E k \in DOMAIN s : IsCorrupt(s[k])

(* History: one more <<rrset, expire>> put under key k. *)
Logged(h, k, rrset, exp) ==
    [x \in DOMAIN h \cup {k} |->
        IF x = k THEN (IF k \in DOMAIN h THEN h[k] ELSE <<>>) \o <<<<rrset, exp>>>>
        ELSE h[x]]

(* History: the ttl returned for each of the entries in live. *)
Returned(h, k, live, t) ==
    LET new == {<<k, live[i][1], live[i][2]>> : i \in 1..Len(live)}
    IN  [e \in DOMAIN h \cup new |->
            IF e \in new THEN (e[3] - t) \div TicksPerSec ELSE h[e]]

(* ------------------------------- Init ---------------------------------- *)
Init ==
    /\ clock = 0
    /\ store = EmptyStore
    /\ lock = FREE
    /\ pc = [w \in Workers |-> "idle"]
    /\ data = [w \in Workers |-> NoMsg]
    /\ req = [w \in Workers |-> NoMsg]
    /\ key = [w \in Workers |-> <<>>]
    /\ now = [w \in Workers |-> 0]
    /\ entries = [w \in Workers |-> <<>>]
    /\ upstream_resp = [w \in Workers |-> NoMsg]
    /\ idx = [w \in Workers |-> 0]
    /\ expire = [w \in Workers |-> 0]
    /\ resp = [w \in Workers |-> NoMsg]
    /\ asked = [w \in Workers |-> 0]
    /\ stored = [w \in Workers |-> <<>>]
    /\ gcpc = "sample"
    /\ gcnow = 0
    /\ gcwake = 0
    /\ nreq = 0
    /\ nsent = 0
    /\ mainpc = "listen"
    /\ file = [exists |-> FALSE, store |-> EmptyStore]
    /\ everPut = EmptyStore
    /\ lastTtl = <<>>
    /\ prior = [w \in Workers |-> <<>>]

(* The state after construction when CACHE_FILE exists, damaged or not. *)
InitLoaded ==
    /\ clock = 0
    /\ store \in LoadedStores
    /\ lock = FREE
    /\ pc = [w \in Workers |-> "idle"]
    /\ data = [w \in Workers |-> NoMsg]
    /\ req = [w \in Workers |-> NoMsg]
    /\ key = [w \in Workers |-> <<>>]
    /\ now = [w \in Workers |-> 0]
    /\ entries = [w \in Workers |-> <<>>]
    /\ upstream_resp = [w \in Workers |-> NoMsg]
    /\ idx = [w \in Workers |-> 0]
    /\ expire = [w \in Workers |-> 0]
    /\ resp = [w \in Workers |-> NoMsg]
    /\ asked = [w \in Workers |-> 0]
    /\ stored = [w \in Workers |-> <<>>]
    /\ gcpc = "sample"
    /\ gcnow = 0
    /\ gcwake = 0
    /\ nreq = 0
    /\ nsent = 0
    /\ mainpc = "listen"
    /\ file = [exists |-> TRUE, store |-> store]
    /\ everPut = EmptyStore
    /\ lastTtl = <<>>
    /\ prior = [w \in Workers |-> <<>>]

(* ------------------------------- clock --------------------------------- *)
(* One tick passes ... *)
Tick ==
    /\ Running
    /\ clock % Interval < MaxTick
    /\ clock' = clock + 1
    /\ UNCHANGED <<mvars, store, lock, wvars, gcvars, nreq, nsent, hvars>>

(* ... or a whole gc interval passes between two requests, with the gc     *)
(* thread asleep.                                                          *)
Idle ==
    /\ Running
    /\ clock \div Interval < MaxIdle
    /\ \A w \in Workers : pc[w] = "idle"
    /\ gcpc = "sample"
    /\ clock' = clock + Interval
    /\ UNCHANGED <<mvars, store, lock, wvars, gcvars, nreq, nsent, hvars>>

(* One tick passes, up to MaxWait ticks after a whole number of intervals. *)
Pass ==
    /\ Running
    /\ clock % Interval < MaxWait
    /\ clock' = clock + 1
    /\ UNCHANGED <<mvars, store, lock, wvars, gcvars, nreq, nsent, hvars>>

(* Nothing is running and the reclaimer sleeps: time passes until one tick  *)
(* before time.sleep returns.                                               *)
Doze ==
    /\ Running
    /\ clock \div Interval < MaxIdle
    /\ \A w \in Workers : pc[w] = "idle"
    /\ gcpc = "sample"
    /\ clock < gcwake - 1
    /\ clock' = gcwake - 1
    /\ UNCHANGED <<mvars, store, lock, wvars, gcvars, nreq, nsent, hvars>>

(* ------------------------------ listener ------------------------------- *)
(* srv.recvfrom + threading.Thread(target=handle_query).start(): a new     *)
(* thread in the first slot that no running thread occupies.               *)
Dispatch(w, d, max) ==
    /\ mainpc = "listen"
    /\ nreq < max
    /\ pc[w] = "idle"
    /\ \A v \in Workers : v < w => pc[v] # "idle"
    /\ nreq' = nreq + 1
    /\ pc' = [pc EXCEPT ![w] = "start"]
    /\ data' = [data EXCEPT ![w] = d]
    /\ UNCHANGED <<mvars, clock, store, lock, req, key, now, entries, upstream_resp,
                   idx, expire, resp, asked, stored, gcvars, nsent, hvars>>

(* ---------------------------- handle_query ----------------------------- *)
(* The thread ends: its locals are gone. *)
Ended(w) ==
    /\ pc' = [pc EXCEPT ![w] = "idle"]
    /\ data' = [data EXCEPT ![w] = NoMsg]
    /\ req' = [req EXCEPT ![w] = NoMsg]
    /\ key' = [key EXCEPT ![w] = <<>>]
    /\ now' = [now EXCEPT ![w] = 0]
    /\ entries' = [entries EXCEPT ![w] = <<>>]
    /\ upstream_resp' = [upstream_resp EXCEPT ![w] = NoMsg]
    /\ idx' = [idx EXCEPT ![w] = 0]
    /\ expire' = [expire EXCEPT ![w] = 0]
    /\ resp' = [resp EXCEPT ![w] = NoMsg]
    /\ asked' = [asked EXCEPT ![w] = 0]
    /\ stored' = [stored EXCEPT ![w] = <<>>]

(* message.from_wire(data); req.question[0]; message.make_response(req).   *)
(* A datagram that does not decode, or has no question, raises: the outer  *)
(* except swallows it and the thread ends.                                 *)
Decode(w) ==
    /\ Running
    /\ pc[w] = "start"
    /\ IF data[w].valid /\ Len(data[w].question) > 0
       THEN /\ req' = [req EXCEPT ![w] = data[w]]
            /\ resp' = [resp EXCEPT ![w] = MakeResponse(data[w])]
            /\ pc' = [pc EXCEPT ![w] = "get"]
            /\ UNCHANGED <<data, key, now, entries, upstream_resp, idx, expire,
                           asked, stored>>
       ELSE Ended(w)
    /\ UNCHANGED <<mvars, clock, store, lock, gcvars, nreq, nsent, hvars>>

(* cache.get: key and now are computed before the lock is taken. *)
GetSample(w) ==
    /\ Running
    /\ pc[w] = "get"
    /\ LET q == req[w].question[1]
       IN  key' = [key EXCEPT ![w] = KeyOf(q.name, q.rdtype, q.rdclass)]
    /\ now' = [now EXCEPT ![w] = clock]
    /\ prior' = [prior EXCEPT ![w] = lastTtl]
    /\ pc' = [pc EXCEPT ![w] = "get_lock"]
    /\ UNCHANGED <<mvars, clock, store, lock, data, req, entries, upstream_resp, idx,
                   expire, resp, asked, stored, gcvars, nreq, nsent, everPut, lastTtl>>

GetAcquire(w) ==
    /\ Running
    /\ pc[w] = "get_lock"
    /\ lock = FREE
    /\ lock' = w
    /\ pc' = [pc EXCEPT ![w] = "get_cs"]
    /\ UNCHANGED <<mvars, clock, store, data, req, key, now, entries, upstream_resp,
                   idx, expire, resp, asked, stored, gcvars, nreq, nsent, hvars>>

(* The body of `with self.lock` in get, the release at its end, and the    *)
(* return: key and now are locals of get.                                  *)
GetBody(w) ==
    /\ Running
    /\ pc[w] = "get_cs"
    /\ entries' = [entries EXCEPT ![w] = GetResults(Lookup(store, key[w]), now[w])]
    /\ store' = GetStore(store, key[w], now[w])
    /\ lock' = FREE
    /\ key' = [key EXCEPT ![w] = <<>>]
    /\ now' = [now EXCEPT ![w] = 0]
    /\ lastTtl' = Returned(lastTtl, key[w], Live(Lookup(store, key[w]), now[w]), now[w])
    /\ prior' = [prior EXCEPT ![w] = <<>>]
    /\ pc' = [pc EXCEPT ![w] = "got"]
    /\ UNCHANGED <<mvars, clock, data, req, upstream_resp, idx, expire, resp,
                   asked, stored, gcvars, nreq, nsent, everPut>>

(* CopyWithTTL, without the assignment of the ttl. *)
CopyKeepTTL(rrset, ttl) == rrset

(* rs_copy = rrset.copy(); rs_copy.ttl = ttl *)
CopyWithTTL(rrset, ttl) == [rrset EXCEPT !.ttl = ttl]

(* The Store after the hit loop: get handed out the stored rrsets, the loop *)
(* assigns each ttl to a copy, so no stored rrset is written.               *)
WriteCopies(s, k, es) == s

HitAnswers(es) == [i \in 1..Len(es) |-> CopyWithTTL(es[i][1], es[i][2])]

Hit(w) ==
    /\ Running
    /\ pc[w] = "got"
    /\ entries[w] # <<>>
    /\ resp' = [resp EXCEPT ![w].answer = resp[w].answer \o HitAnswers(entries[w])]
    /\ LET q == req[w].question[1]
       IN  store' = WriteCopies(store, KeyOf(q.name, q.rdtype, q.rdclass), entries[w])
    /\ pc' = [pc EXCEPT ![w] = "send"]
    /\ UNCHANGED <<mvars, clock, lock, data, req, key, now, entries,
                   upstream_resp, idx, expire, asked, stored,
                   gcvars, nreq, nsent, hvars>>

(* query.udp(req, UPSTREAM_DNS, timeout=2): the query leaves ... *)
Miss(w) ==
    /\ Running
    /\ pc[w] = "got"
    /\ entries[w] = <<>>
    /\ asked' = [asked EXCEPT ![w] = asked[w] + 1]
    /\ pc' = [pc EXCEPT ![w] = "upstream"]
    /\ UNCHANGED <<mvars, clock, store, lock, data, req, key, now, entries,
                   upstream_resp, idx, expire, resp, stored, gcvars, nreq, nsent, hvars>>

(* ... and an answer arrives within the timeout ... *)
UpstreamAnswer(w, responses) ==
    /\ Running
    /\ pc[w] = "upstream"
    /\ \E r \in responses :
          /\ upstream_resp' = [upstream_resp EXCEPT ![w] = r]
          /\ idx' = [idx EXCEPT ![w] = 1]
          /\ IF Sections(r) = <<>>
             THEN /\ resp' = [resp EXCEPT ![w] = r]
                  /\ pc' = [pc EXCEPT ![w] = "send"]
             ELSE /\ pc' = [pc EXCEPT ![w] = "put"]
                  /\ UNCHANGED resp
    /\ UNCHANGED <<mvars, clock, store, lock, data, req, key, now, entries, expire,
                   asked, stored, gcvars, nreq, nsent, hvars>>

(* ... or none does: exception.Timeout, resp.set_rcode(2) ... *)
UpstreamTimeout(w) ==
    /\ Running
    /\ pc[w] = "upstream"
    /\ resp' = [resp EXCEPT ![w] = SetRcode(resp[w], SERVFAIL)]
    /\ pc' = [pc EXCEPT ![w] = "send"]
    /\ UNCHANGED <<mvars, clock, store, lock, data, req, key, now, entries,
                   upstream_resp, idx, expire, asked, stored,
                   gcvars, nreq, nsent, hvars>>

(* UpstreamError, handled like a timeout: a reply is sent. *)
UpstreamErrorReplies(w) ==
    /\ Running
    /\ pc[w] = "upstream"
    /\ nsent' = nsent + 1
    /\ Ended(w)
    /\ UNCHANGED <<mvars, clock, store, lock, gcvars, nreq, hvars>>

(* ... or query.udp raises anything else: the outer except swallows it. *)
UpstreamError(w) ==
    /\ Running
    /\ pc[w] = "upstream"
    /\ Ended(w)
    /\ UNCHANGED <<mvars, clock, store, lock, gcvars, nreq, nsent, hvars>>

(* cache.put(rrset): key and expire are computed before the lock is taken. *)
PutSample(w) ==
    /\ Running
    /\ pc[w] = "put"
    /\ LET rrset == Sections(upstream_resp[w])[idx[w]]
       IN  /\ key' = [key EXCEPT ![w] = KeyOf(rrset.name, rrset.rdtype, rrset.rdclass)]
           /\ expire' = [expire EXCEPT ![w] = PutExpire(clock, rrset)]
    /\ pc' = [pc EXCEPT ![w] = "put_lock"]
    /\ UNCHANGED <<mvars, clock, store, lock, data, req, now, entries, upstream_resp,
                   idx, resp, asked, stored, gcvars, nreq, nsent, hvars>>

PutAcquire(w) ==
    /\ Running
    /\ pc[w] = "put_lock"
    /\ lock = FREE
    /\ lock' = w
    /\ pc' = [pc EXCEPT ![w] = "put_cs"]
    /\ UNCHANGED <<mvars, clock, store, data, req, key, now, entries, upstream_resp,
                   idx, expire, resp, asked, stored, gcvars, nreq, nsent, hvars>>

(* The body of `with self.lock` in put, the release, the return, and the   *)
(* step of the loops over the sections; after the last record,             *)
(* resp = upstream_resp.                                                   *)
PutBody(w) ==
    /\ Running
    /\ pc[w] = "put_cs"
    /\ LET rrset == Sections(upstream_resp[w])[idx[w]]
       IN  /\ store' = PutStore(store, key[w], rrset, expire[w])
           /\ everPut' = Logged(everPut, key[w], rrset, expire[w])
           /\ stored' = [stored EXCEPT ![w] = Append(stored[w], rrset)]
    /\ lock' = FREE
    /\ key' = [key EXCEPT ![w] = <<>>]
    /\ expire' = [expire EXCEPT ![w] = 0]
    /\ idx' = [idx EXCEPT ![w] = idx[w] + 1]
    /\ IF idx[w] = Len(Sections(upstream_resp[w]))
       THEN /\ resp' = [resp EXCEPT ![w] = upstream_resp[w]]
            /\ pc' = [pc EXCEPT ![w] = "send"]
       ELSE /\ pc' = [pc EXCEPT ![w] = "put"]
            /\ UNCHANGED resp
    /\ UNCHANGED <<mvars, clock, data, req, now, entries, upstream_resp,
                   asked, gcvars, nreq, nsent, lastTtl, prior>>

(* sock.sendto(resp.to_wire(), addr), and the thread ends: the datagram is  *)
(* sent, or to_wire or sendto raises, the outer except swallows it and      *)
(* nothing is sent.                                                         *)
Send(w) ==
    /\ Running
    /\ pc[w] = "send"
    /\ \E sent \in BOOLEAN : nsent' = IF sent THEN nsent + 1 ELSE nsent
    /\ Ended(w)
    /\ UNCHANGED <<mvars, clock, store, lock, gcvars, nreq, hvars>>

(* ------------------------------ DnsCache.gc ---------------------------- *)
(* time.sleep has returned (or the thread has just started): now is read. *)
GcSample ==
    /\ Running
    /\ gcpc = "sample"
    /\ clock >= gcwake
    /\ gcnow' = clock
    /\ gcwake' = 0
    /\ gcpc' = "lock"
    /\ UNCHANGED <<mvars, clock, store, lock, wvars, nreq, nsent, hvars>>

(* GcAcquire, entering without waiting for the lock. *)
GcBarge ==
    /\ Running
    /\ gcpc = "lock"
    /\ lock' = GC
    /\ gcpc' = "cs"
    /\ UNCHANGED <<mvars, clock, store, wvars, gcnow, gcwake, nreq, nsent, hvars>>

GcAcquire ==
    /\ Running
    /\ gcpc = "lock"
    /\ lock = FREE
    /\ lock' = GC
    /\ gcpc' = "cs"
    /\ UNCHANGED <<mvars, clock, store, wvars, gcnow, gcwake, nreq, nsent, hvars>>

(* GcBody, leaving the with block without releasing the lock. *)
GcHolds ==
    /\ Running
    /\ gcpc = "cs"
    /\ store' = GcSweep(store, gcnow)
    /\ gcnow' = 0
    /\ gcpc' = "swept"
    /\ UNCHANGED <<mvars, clock, lock, wvars, gcwake, nreq, nsent, hvars>>

(* The sweep under the lock and the release at the end of the with block;  *)
(* or the sweep raises, which releases the lock and ends the thread: gc    *)
(* catches nothing.                                                        *)
GcBody ==
    /\ Running
    /\ gcpc = "cs"
    /\ lock' = FREE
    /\ gcnow' = 0
    /\ IF GcRaises(store)
       THEN /\ gcpc' = "dead"
            /\ UNCHANGED store
       ELSE /\ store' = GcSweep(store, gcnow)
            /\ gcpc' = "swept"
    /\ UNCHANGED <<mvars, clock, wvars, gcwake, nreq, nsent, hvars>>

(* time.sleep(GC_INTERVAL) is called, the lock free: it returns one        *)
(* interval after this call.                                               *)
GcSleep ==
    /\ Running
    /\ gcpc = "swept"
    /\ gcwake' = clock + Interval
    /\ gcpc' = "sample"
    /\ UNCHANGED <<mvars, clock, store, lock, wvars, gcnow, nreq, nsent, hvars>>

(* ------------------------------ shutdown ------------------------------- *)
(* KeyboardInterrupt in srv.recvfrom: the listener stops, cache.save() is   *)
(* called.                                                                  *)
Interrupt ==
    /\ mainpc = "listen"
    /\ mainpc' = "save_lock"
    /\ UNCHANGED <<clock, store, lock, wvars, gcvars, nreq, nsent, file, hvars>>

SaveAcquire ==
    /\ mainpc = "save_lock"
    /\ lock = FREE
    /\ lock' = MAIN
    /\ mainpc' = "save_cs"
    /\ UNCHANGED <<clock, store, wvars, gcvars, nreq, nsent, file, hvars>>

(* pickle.dump(self.store, f) under the lock, and the release at the end   *)
(* of the with block: the other threads go on.                              *)
SaveBody ==
    /\ mainpc = "save_cs"
    /\ file' = [exists |-> TRUE, store |-> store]
    /\ lock' = FREE
    /\ mainpc' = "saved"
    /\ UNCHANGED <<clock, store, wvars, gcvars, nreq, nsent, hvars>>

(* save returns and the main thread ends: the process exits, and the        *)
(* daemon threads with it.                                                  *)
Exit ==
    /\ mainpc = "saved"
    /\ mainpc' = "exit"
    /\ UNCHANGED <<clock, store, lock, wvars, gcvars, nreq, nsent, file, hvars>>

(* ------------------------------- Next ---------------------------------- *)
Next ==
    \/ Tick
    \/ Idle
    \/ \E w \in Workers, d \in Datagrams : Dispatch(w, d, MaxReq)
    \/ \E w \in Workers : Decode(w)
    \/ \E w \in Workers : GetSample(w)
    \/ \E w \in Workers : GetAcquire(w)
    \/ \E w \in Workers : GetBody(w)
    \/ \E w \in Workers : Hit(w)
    \/ \E w \in Workers : Miss(w)
    \/ \E w \in Workers : UpstreamAnswer(w, UpstreamResponses(req[w].question[1]))
    \/ \E w \in Workers : UpstreamTimeout(w)
    \/ \E w \in Workers : UpstreamError(w)
    \/ \E w \in Workers : PutSample(w)
    \/ \E w \in Workers : PutAcquire(w)
    \/ \E w \in Workers : PutBody(w)
    \/ \E w \in Workers : Send(w)
    \/ GcSample
    \/ GcAcquire
    \/ GcBody
    \/ GcSleep
    \/ Interrupt
    \/ SaveAcquire
    \/ SaveBody
    \/ Exit

Spec == Init /\ [][Next]_vars

(* The server while it listens: every thread but the main thread's         *)
(* shutdown, no KeyboardInterrupt arriving.                                *)
NextServe ==
    \/ Tick
    \/ Idle
    \/ \E w \in Workers, d \in Datagrams : Dispatch(w, d, MaxReq)
    \/ \E w \in Workers : Decode(w)
    \/ \E w \in Workers : GetSample(w)
    \/ \E w \in Workers : GetAcquire(w)
    \/ \E w \in Workers : GetBody(w)
    \/ \E w \in Workers : Hit(w)
    \/ \E w \in Workers : Miss(w)
    \/ \E w \in Workers : UpstreamAnswer(w, UpstreamResponses(req[w].question[1]))
    \/ \E w \in Workers : UpstreamTimeout(w)
    \/ \E w \in Workers : UpstreamError(w)
    \/ \E w \in Workers : PutSample(w)
    \/ \E w \in Workers : PutAcquire(w)
    \/ \E w \in Workers : PutBody(w)
    \/ \E w \in Workers : Send(w)
    \/ GcSample
    \/ GcAcquire
    \/ GcBody
    \/ GcSleep

SpecServe == Init /\ [][NextServe]_vars

(* The same started on a cache file, damaged or not. *)
SpecLoaded == InitLoaded /\ [][NextServe]_vars

(* The shutdown, at one instant of the clock: the requests, the first gc    *)
(* cycle, and the main thread interrupted at any point of them, saving and  *)
(* leaving while the other threads go on.                                   *)
NextStop ==
    \/ \E w \in Workers, d \in Datagrams : Dispatch(w, d, MaxReq)
    \/ \E w \in Workers : Decode(w)
    \/ \E w \in Workers : GetSample(w)
    \/ \E w \in Workers : GetAcquire(w)
    \/ \E w \in Workers : GetBody(w)
    \/ \E w \in Workers : Hit(w)
    \/ \E w \in Workers : Miss(w)
    \/ \E w \in Workers : UpstreamAnswer(w, UpstreamResponses(req[w].question[1]))
    \/ \E w \in Workers : UpstreamTimeout(w)
    \/ \E w \in Workers : UpstreamError(w)
    \/ \E w \in Workers : PutSample(w)
    \/ \E w \in Workers : PutAcquire(w)
    \/ \E w \in Workers : PutBody(w)
    \/ \E w \in Workers : Send(w)
    \/ GcSample
    \/ GcAcquire
    \/ GcBody
    \/ GcSleep
    \/ Interrupt
    \/ SaveAcquire
    \/ SaveBody
    \/ Exit

SpecStop == Init /\ [][NextStop]_vars

(* ------------------------------ fairness ------------------------------- *)
(* A step of the thread of worker w that waits for nothing but the          *)
(* scheduler: the upstream call returns, bounded as it is by its timeout.   *)
WorkerStep(w) ==
    \/ Decode(w) \/ GetSample(w) \/ GetBody(w) \/ Hit(w) \/ Miss(w)
    \/ UpstreamAnswer(w, UpstreamResponses(req[w].question[1]))
    \/ UpstreamTimeout(w) \/ UpstreamError(w)
    \/ PutSample(w) \/ PutBody(w) \/ Send(w)

(* Thread scheduling: a thread that can run, and waits for no lock, is      *)
(* scheduled: the workers, the gc thread, the main thread inside save.      *)
Fairness ==
    /\ \A w \in Workers : WF_vars(WorkerStep(w))
    /\ WF_vars(GcSample)
    /\ WF_vars(GcBody)
    /\ WF_vars(GcSleep)
    /\ WF_vars(SaveBody)

(* The lock is handed to every thread that keeps asking for it.             *)
(* threading.Lock promises no such thing: this is an assumption that a      *)
(* statement checked under it has to make itself.                           *)
LockFairness ==
    /\ \A w \in Workers : SF_vars(GetAcquire(w))
    /\ \A w \in Workers : SF_vars(PutAcquire(w))
    /\ SF_vars(GcAcquire)

(* Time passes: with every request served and the reclaimer asleep, the     *)
(* clock reaches the end of its sleep.  Followed only while the Store holds *)
(* a key: over an empty Store a cycle of the reclaimer changes nothing.     *)
Wake ==
    /\ Running
    /\ \A w \in Workers : pc[w] = "idle"
    /\ gcpc = "sample"
    /\ clock < gcwake
    /\ DOMAIN store # {}
    /\ clock' = gcwake
    /\ UNCHANGED <<mvars, store, lock, wvars, gcvars, nreq, nsent, hvars>>

(* The server while it listens, cycle after cycle of the reclaimer, time     *)
(* passing between the requests.                                            *)
NextFair ==
    \/ Wake
    \/ \E w \in Workers, d \in Datagrams : Dispatch(w, d, MaxReq)
    \/ \E w \in Workers : WorkerStep(w)
    \/ \E w \in Workers : GetAcquire(w)
    \/ \E w \in Workers : PutAcquire(w)
    \/ GcSample
    \/ GcAcquire
    \/ GcBody
    \/ GcSleep

FairSpec ==
    Init /\ [][NextFair]_vars /\ Fairness /\ LockFairness /\ WF_vars(Wake)

(* The same started on a cache file, damaged or not. *)
FairLoadedSpec ==
    InitLoaded /\ [][NextFair]_vars /\ Fairness /\ LockFairness /\ WF_vars(Wake)

(* The shutdown under the same scheduling, at one instant of the clock,     *)
(* every upstream answer holding at most one record.                        *)
NextFairStop ==
    \/ \E w \in Workers, d \in Datagrams : Dispatch(w, d, MaxReq)
    \/ \E w \in Workers : Decode(w)
    \/ \E w \in Workers : GetSample(w)
    \/ \E w \in Workers : GetAcquire(w)
    \/ \E w \in Workers : GetBody(w)
    \/ \E w \in Workers : Hit(w)
    \/ \E w \in Workers : Miss(w)
    \/ \E w \in Workers : UpstreamAnswer(w, PlainResponses(req[w].question[1]))
    \/ \E w \in Workers : UpstreamTimeout(w)
    \/ \E w \in Workers : UpstreamError(w)
    \/ \E w \in Workers : PutSample(w)
    \/ \E w \in Workers : PutAcquire(w)
    \/ \E w \in Workers : PutBody(w)
    \/ \E w \in Workers : Send(w)
    \/ GcSample
    \/ GcAcquire
    \/ GcBody
    \/ GcSleep
    \/ Interrupt
    \/ SaveAcquire
    \/ SaveBody
    \/ Exit

FairStopSpec == Init /\ [][NextFairStop]_vars /\ Fairness /\ LockFairness

(* A burst of MaxBurst queries for one key, each answered by the upstream  *)
(* with one record for that key: the same threads, restricted inputs.      *)
NextBurst ==
    \/ Tick
    \/ Idle
    \/ \E w \in Workers : Dispatch(w, [valid |-> TRUE, question |-> <<Question(NameA)>>], MaxBurst)
    \/ \E w \in Workers : Decode(w)
    \/ \E w \in Workers : GetSample(w)
    \/ \E w \in Workers : GetAcquire(w)
    \/ \E w \in Workers : GetBody(w)
    \/ \E w \in Workers : Hit(w)
    \/ \E w \in Workers : Miss(w)
    \/ \E w \in Workers : UpstreamAnswer(w, BurstResponses(req[w].question[1]))
    \/ \E w \in Workers : PutSample(w)
    \/ \E w \in Workers : PutAcquire(w)
    \/ \E w \in Workers : PutBody(w)
    \/ \E w \in Workers : Send(w)
    \/ GcSample
    \/ GcAcquire
    \/ GcBody
    \/ GcSleep

SpecBurst == Init /\ [][NextBurst]_vars

(* One single query and the reclaimer, over a longer stretch of time. *)
NextSweep ==
    \/ Pass
    \/ Doze
    \/ \E w \in Workers : Dispatch(w, [valid |-> TRUE, question |-> <<Question(NameA)>>], 1)
    \/ \E w \in Workers : Decode(w)
    \/ \E w \in Workers : GetSample(w)
    \/ \E w \in Workers : GetAcquire(w)
    \/ \E w \in Workers : GetBody(w)
    \/ \E w \in Workers : Miss(w)
    \/ \E w \in Workers : UpstreamAnswer(w, UpstreamResponses(req[w].question[1]))
    \/ \E w \in Workers : PutSample(w)
    \/ \E w \in Workers : PutAcquire(w)
    \/ \E w \in Workers : PutBody(w)
    \/ \E w \in Workers : Send(w)
    \/ GcSample
    \/ GcAcquire
    \/ GcBody
    \/ GcSleep

SpecSweep == Init /\ [][NextSweep]_vars

(* ========================= the claims, checked ========================= *)
(* Whole seconds in a number of ticks, as int() of a positive float. *)
WholeSeconds(ticks) == ticks \div TicksPerSec

(* The step in which get returns / put returns for worker w. *)
GetReturns(w) == pc[w] = "get_cs" /\ pc'[w] = "got"
PutReturns(w) == pc[w] = "put_cs" /\ pc'[w] # "put_cs"

AllEntries(s) == UNION {{s[k][i] : i \in 1..Len(s[k])} : k \in DOMAIN s}
TotalPuts == LET Sum[ks \in SUBSET DOMAIN everPut] ==
                     IF ks = {} THEN 0
                     ELSE LET k == CHOOSE x \in ks : TRUE
                          IN  Len(everPut[k]) + Sum[ks \ {k}]
             IN  Sum[DOMAIN everPut]

(* C1 (as claimed): every <<record, ttl>> that get returns has a stored     *)
(* expiry strictly greater than the time the call sampled, and the ttl      *)
(* returned is never <= 0.                                                  *)
C1_NeverExposesExpired ==
    [][\A w \in Workers : GetReturns(w) =>
          \A i \in 1..Len(entries'[w]) :
             /\ entries'[w][i][2] > 0
             /\ \E j \in 1..Len(Lookup(store, key[w])) :
                   /\ store[key[w]][j][1] = entries'[w][i][1]
                   /\ store[key[w]][j][2] > now[w]
                   /\ entries'[w][i][2] = WholeSeconds(store[key[w]][j][2] - now[w])]_vars

(* The entries of a bucket that a get sampling time t finds alive. *)
Unexpired(bucket, t) == SelectSeq(bucket, LAMBDA e : e[2] > t)

(* The ttl of a record never increases from one get to a later get that     *)
(* began after the first had returned.                                      *)
NeverIncreases(w) ==
    LET alive == Unexpired(Lookup(store, key[w]), now[w])
        res   == entries'[w]
    IN  /\ Len(res) = Len(alive)
        /\ \A i \in 1..Len(res) :
              LET e == <<key[w], alive[i][1], alive[i][2]>>
              IN  e \in DOMAIN prior[w] => res[i][2] <= prior[w][e]

(* C2 (as claimed): a get that sampled a time before the expiry T0+t of a   *)
(* record put on its key returns that record with ttl t-d truncated; a get  *)
(* that sampled T0+t or later does not return it; the ttl returned for one  *)
(* record never increases across successive gets.                           *)
C2_TTLDecrease_Original ==
    [][\A w \in Workers : GetReturns(w) =>
          LET puts == Lookup(everPut, key[w])
              t    == now[w]
              res  == entries'[w]
          IN  /\ \A j \in 1..Len(puts) : puts[j][2] > t =>
                    \E i \in 1..Len(res) :
                       res[i] = <<puts[j][1], WholeSeconds(puts[j][2] - t)>>
              /\ \A i \in 1..Len(res) : \E j \in 1..Len(puts) :
                    /\ puts[j][2] > t
                    /\ res[i] = <<puts[j][1], WholeSeconds(puts[j][2] - t)>>
              /\ Len(res) <= Cardinality({j \in 1..Len(puts) : puts[j][2] > t})
              /\ NeverIncreases(w)]_vars

(* C2 (amended): a get that sampled T0+d, d < t, and that enters its        *)
(* critical section while the time is still before T0+t returns the record  *)
(* with ttl t-d truncated; a get that sampled T0+t or later never returns   *)
(* it; the ttl returned for one record never increases across gets that do  *)
(* not overlap; every stored expiry is the time its put sampled plus the    *)
(* record's own TTL.                                                        *)
C2_TTLDecrease ==
    [][/\ \A w \in Workers : GetReturns(w) =>
          LET puts == Lookup(everPut, key[w])
              t    == now[w]
              res  == entries'[w]
          IN  /\ \A j \in 1..Len(puts) : puts[j][2] > clock =>
                    \E i \in 1..Len(res) :
                       res[i] = <<puts[j][1], WholeSeconds(puts[j][2] - t)>>
              /\ \A i \in 1..Len(res) : \E j \in 1..Len(puts) :
                    /\ puts[j][2] > t
                    /\ res[i] = <<puts[j][1], WholeSeconds(puts[j][2] - t)>>
              /\ Len(res) <= Cardinality({j \in 1..Len(puts) : puts[j][2] > t})
              /\ NeverIncreases(w)
       /\ \A e \in AllEntries(everPut') :
             e[2] - e[1].ttl * TicksPerSec \in 0..clock']_vars

(* A get has returned, with less than its advertised TTL, a record that an  *)
(* earlier get had returned too.                                           *)
C2_Witness ==
    \E w \in Workers :
        /\ pc[w] = "got"
        /\ \E i \in 1..Len(entries[w]) : entries[w][i][2] < entries[w][i][1].ttl
        /\ \E e \in DOMAIN lastTtl : lastTtl[e] < e[2].ttl
        /\ nreq = MaxBurst

(* C3: a get of a key, on which N puts have completed and none of whose      *)
(* records has expired, returns exactly those N records, in the order they  *)
(* were put: none lost, none twice.                                         *)
C3_ConcurrentPuts ==
    [][\A w \in Workers : GetReturns(w) =>
          LET puts == Lookup(everPut, key[w])
              res  == entries'[w]
          IN  (\A j \in 1..Len(puts) : puts[j][2] > clock) =>
                 /\ Len(res) = Len(puts)
                 /\ \A j \in 1..Len(puts) : res[j][1] = puts[j][1]]_vars

(* A get has returned the two records that two requests, both of which had  *)
(* missed, put on its key.                                                  *)
C3_Witness ==
    \E w \in Workers :
        /\ pc[w] = "got"
        /\ Len(entries[w]) = 2
        /\ \E k \in DOMAIN everPut : Len(everPut[k]) = 2

(* C4: get(K) returns only records whose (name, type, class) is K and that   *)
(* a put has stored under K; as long as no put was on K it returns nothing, *)
(* whatever was put on other keys.                                          *)
C4_NoFalseHits ==
    [][\A w \in Workers : GetReturns(w) =>
          LET q   == req[w].question[1]
              res == entries'[w]
          IN  /\ \A i \in 1..Len(res) :
                    /\ res[i][1].name = q.name
                    /\ res[i][1].rdtype = q.rdtype
                    /\ res[i][1].rdclass = q.rdclass
                    /\ \E k \in DOMAIN everPut : \E j \in 1..Len(everPut[k]) :
                          /\ everPut[k][j][1] = res[i][1]
                          /\ k = <<ToText(q.name), q.rdtype, q.rdclass>>
              /\ (\A k \in DOMAIN everPut : \A j \in 1..Len(everPut[k]) :
                     \/ everPut[k][j][1].name # q.name
                     \/ everPut[k][j][1].rdtype # q.rdtype
                     \/ everPut[k][j][1].rdclass # q.rdclass)
                 => res = <<>>]_vars

(* A get has returned nothing while the store holds unexpired records that  *)
(* were put on two other keys.                                              *)
C4_Witness ==
    \E w \in Workers :
        /\ pc[w] = "got"
        /\ entries[w] = <<>>
        /\ Cardinality({k \in DOMAIN store : Unexpired(store[k], clock) # <<>>}) = 2
        /\ \A k \in DOMAIN everPut : k # <<"a.", TypeA, ClassIN>>

(* C5 (as claimed): right after any get or put completes at time T, every    *)
(* record in the store, under any key, has expiry > T.                      *)
C5_StoreInvariant ==
    [][(\E w \in Workers : GetReturns(w) \/ PutReturns(w)) =>
          \A e \in AllEntries(store') : e[2] > clock']_vars

(* C6 (as claimed): a get of a key none of whose records is alive returns    *)
(* nothing and leaves the store without that key; no key is ever mapped to  *)
(* an empty bucket.                                                         *)
C6_IdempotentPruning ==
    [][/\ \A w \in Workers : GetReturns(w) =>
            (Unexpired(Lookup(store, key[w]), now[w]) = <<>> =>
                /\ entries'[w] = <<>>
                /\ key[w] \notin DOMAIN store')
       /\ \A k \in DOMAIN store' : store'[k] # <<>>]_vars

(* C7: a request whose get returned records answers with one answer per      *)
(* returned record, in order, each the record with its ttl replaced by the  *)
(* remaining ttl that get computed, and has not called the upstream; only   *)
(* a request whose get returned nothing calls the upstream.                 *)
C7_CacheHit ==
    \A w \in Workers :
        /\ (pc[w] = "send" /\ entries[w] # <<>>) =>
              /\ Len(resp[w].answer) = Len(entries[w])
              /\ \A i \in 1..Len(entries[w]) :
                    /\ resp[w].answer[i].ttl = entries[w][i][2]
                    /\ resp[w].answer[i].name = entries[w][i][1].name
                    /\ resp[w].answer[i].rdtype = entries[w][i][1].rdtype
                    /\ resp[w].answer[i].rdclass = entries[w][i][1].rdclass
                    /\ resp[w].answer[i].rdata = entries[w][i][1].rdata
              /\ asked[w] = 0
              /\ upstream_resp[w] = NoMsg
        /\ (asked[w] > 0 \/ pc[w] \in {"upstream", "put", "put_lock", "put_cs"}) =>
              entries[w] = <<>>

(* A hit is about to be sent whose answer carries less than the advertised  *)
(* TTL.                                                                     *)
C7_Witness ==
    \E w \in Workers :
        /\ pc[w] = "send"
        /\ entries[w] # <<>>
        /\ entries[w][1][2] < entries[w][1][1].ttl
        /\ resp[w].answer # <<>>

(* C8: on a miss that the upstream answers, the request puts every record    *)
(* of the answer, authority and additional sections once, in that order,    *)
(* each with an expiry of the time put sampled plus the record's own TTL,   *)
(* and replies with the upstream response as received; after one single     *)
(* put, of a record with TTL t, a get of its key that sampled its time no   *)
(* earlier than that put did and that runs before the expiry returns        *)
(* exactly that record with a ttl of at most t.                             *)
C8_MissPopulates ==
    [][/\ \A w \in Workers :
            (pc'[w] = "send" /\ upstream_resp'[w] # NoMsg) =>
                /\ stored'[w] = upstream_resp'[w].answer
                                  \o upstream_resp'[w].authority
                                  \o upstream_resp'[w].additional
                /\ resp'[w] = upstream_resp'[w]
       /\ \A w \in Workers :
            upstream_resp[w] # NoMsg => upstream_resp'[w] \in {upstream_resp[w], NoMsg}
       /\ \A w \in Workers : PutReturns(w) =>
            LET all == upstream_resp[w].answer \o upstream_resp[w].authority
                         \o upstream_resp[w].additional
                rr  == all[Len(stored[w]) + 1]
                k   == <<ToText(rr.name), rr.rdtype, rr.rdclass>>
            IN  /\ stored'[w] = Append(stored[w], rr)
                /\ k \in DOMAIN store'
                /\ Len(store'[k]) = Len(Lookup(store, k)) + 1
                /\ store'[k][Len(store'[k])][1] = rr
                /\ store'[k][Len(store'[k])][2] - rr.ttl * TicksPerSec \in 0..clock
                /\ \A x \in DOMAIN store' \ {k} : x \in DOMAIN store /\ store'[x] = store[x]
       /\ \A w \in Workers : GetReturns(w) =>
            LET puts == Lookup(everPut, key[w])
            IN  (/\ TotalPuts = 1 /\ Len(puts) = 1
                 /\ puts[1][2] - puts[1][1].ttl * TicksPerSec <= now[w]
                 /\ puts[1][2] > clock) =>
                   /\ Len(entries'[w]) = 1
                   /\ entries'[w][1][1] = puts[1][1]
                   /\ entries'[w][1][2] \in 0..puts[1][1].ttl]_vars

(* A request has put the three records of an upstream response that fills   *)
(* all three sections and is about to send that response.                   *)
C8_Witness ==
    \E w \in Workers :
        /\ pc[w] = "send"
        /\ upstream_resp[w] # NoMsg
        /\ upstream_resp[w].answer # <<>>
        /\ upstream_resp[w].authority # <<>>
        /\ upstream_resp[w].additional # <<>>
        /\ Len(stored[w]) = 3

(* C9: a request whose upstream call timed out replies with no answers and   *)
(* the server-failure status, has put nothing, and has called the upstream  *)
(* exactly once; no request ever calls the upstream twice.                  *)
C9_UpstreamTimeout ==
    \A w \in Workers :
        /\ asked[w] <= 1
        /\ (pc[w] = "send" /\ asked[w] > 0 /\ upstream_resp[w] = NoMsg) =>
              /\ resp[w].rcode = SERVFAIL
              /\ resp[w].answer = <<>>
              /\ resp[w].authority = <<>>
              /\ resp[w].additional = <<>>
              /\ stored[w] = <<>>
              /\ asked[w] = 1

(* A request whose upstream call timed out is about to send its reply. *)
C9_Witness ==
    \E w \in Workers :
        /\ pc[w] = "send"
        /\ asked[w] = 1
        /\ upstream_resp[w] = NoMsg
        /\ resp[w].rcode = SERVFAIL

(* The step in which the thread of worker w ends. *)
Ends(w) == pc[w] # "idle" /\ pc'[w] = "idle"

(* Nothing but the locals of worker w changes, and nothing is sent. *)
Silent(w) ==
    /\ nsent' = nsent
    /\ lock # w
    /\ <<clock, store, lock, gcvars, nreq>>' = <<clock, store, lock, gcvars, nreq>>
    /\ \A v \in Workers \ {w} :
          <<pc[v], data[v], req[v], key[v], now[v], entries[v], upstream_resp[v],
            idx[v], expire[v], resp[v], asked[v], stored[v]>>'
          = <<pc[v], data[v], req[v], key[v], now[v], entries[v], upstream_resp[v],
              idx[v], expire[v], resp[v], asked[v], stored[v]>>

(* The request of worker w is a hit, a miss the upstream answered, or a     *)
(* miss on which the upstream timed out.                                    *)
IsHit(w) == entries[w] # <<>>
IsMissAnswered(w) == entries[w] = <<>> /\ asked[w] = 1 /\ upstream_resp[w] # NoMsg
IsTimeout(w) ==
    entries[w] = <<>> /\ asked[w] = 1 /\ upstream_resp[w] = NoMsg
    /\ resp[w].rcode = SERVFAIL

(* How a thread may end as claimed: with its one reply, or silently on a    *)
(* datagram that does not decode or an upstream call that fails.            *)
C10_Safety_Original ==
    [][/\ \A w \in Workers : Ends(w) =>
            \/ /\ pc[w] = "send"
               /\ nsent' = nsent + 1
               /\ lock # w
               /\ IsHit(w) \/ IsMissAnswered(w) \/ IsTimeout(w)
            \/ /\ pc[w] = "start"
               /\ ~(data[w].valid /\ data[w].question # <<>>)
               /\ Silent(w)
            \/ /\ pc[w] = "upstream"
               /\ upstream_resp[w] = NoMsg
               /\ Silent(w)
       /\ nsent' # nsent => \E w \in Workers : Ends(w) /\ pc[w] = "send"
       /\ nsent' + Cardinality({w \in Workers : pc'[w] # "idle"}) <= nreq']_vars

(* C10 (as claimed): a thread ends either by sending its one reply (a hit, a *)
(* miss the upstream answered, a timeout) or silently, without the lock and *)
(* without touching anything but its own locals (the datagram did not       *)
(* decode, or the upstream call failed otherwise); a hit, an answered miss  *)
(* and a timeout never end silently; nothing is sent in any other step; and *)
(* every thread that started ends.                                          *)
C10_WorkerCompletes_Original ==
    /\ C10_Safety_Original
    /\ \A w \in Workers : (pc[w] # "idle") ~> (pc[w] = "idle")

(* How a thread may end: at its send, after a hit, an answered miss or a    *)
(* timeout, with one datagram sent, or with none when encoding or sending   *)
(* raised; or before, silently, on a datagram that does not decode or an    *)
(* upstream call that fails otherwise.                                      *)
C10_Safety ==
    [][/\ \A w \in Workers : Ends(w) =>
            \/ /\ pc[w] = "send"
               /\ (nsent' = nsent + 1) \/ Silent(w)
               /\ lock # w
               /\ IsHit(w) \/ IsMissAnswered(w) \/ IsTimeout(w)
            \/ /\ pc[w] = "start"
               /\ ~(data[w].valid /\ data[w].question # <<>>)
               /\ Silent(w)
            \/ /\ pc[w] = "upstream"
               /\ upstream_resp[w] = NoMsg
               /\ Silent(w)
       /\ nsent' # nsent =>
            /\ nsent' = nsent + 1
            /\ \E w \in Workers : Ends(w) /\ pc[w] = "send"
       /\ nsent' + Cardinality({w \in Workers : pc'[w] # "idle"}) <= nreq']_vars

(* C10 (amended): a thread sends at most one datagram, and only as its last *)
(* step; it ends at its send after a hit, an answered miss or a timeout,    *)
(* having sent its reply unless encoding or sending it raised, or silently  *)
(* before, without the lock and without touching anything but its own       *)
(* locals (the datagram did not decode, or the upstream call failed         *)
(* otherwise); and, the threads being scheduled and the lock handed to      *)
(* every thread that keeps asking, every thread that started ends unless    *)
(* the process exits first.                                                 *)
C10_WorkerCompletes ==
    /\ C10_Safety
    /\ \A w \in Workers : (pc[w] # "idle") ~> (pc[w] = "idle" \/ mainpc = "exit")

(* The process has exited with one thread abandoned before its send, the    *)
(* other having ended with its reply sent.                                  *)
C10_Witness ==
    /\ mainpc = "exit"
    /\ nreq = 2
    /\ nsent = 1
    /\ \E w \in Workers : pc[w] = "send"
    /\ \E w \in Workers : pc[w] = "idle"

(* The step in which a gc cycle completes: the sweep is done, the lock is    *)
(* released; the call of time.sleep follows in a step of its own.           *)
GcCompletes == gcpc = "cs" /\ gcpc' = "swept"

(* C11 (as claimed): a record put with TTL 1 is gone from the Store once     *)
(* more than 1 second plus one reclaim interval has passed since its put:   *)
(* checked where the reclaimer has completed a cycle and is asleep, its     *)
(* sleep not yet over.                                                      *)
C11_ReclaimerSweep_Original ==
    (gcpc = "sample" /\ clock < gcwake) =>
        \A e \in AllEntries(store) :
            e[1].ttl = 1 => clock <= e[2] + Interval

(* C11 (amended): when a gc cycle that sampled T completes, the Store holds  *)
(* no record with expiry <= T and no key with an empty bucket, and every    *)
(* record with expiry > T is still there, and the lock is released; the     *)
(* reclaimer then calls sleep, the lock free, and sleeps one whole interval *)
(* counted from that call before it samples the time again.  So a record is *)
(* gone, with its key, once the first cycle that sampled its expiry or      *)
(* later has completed, get or no get.                                      *)
C11_ReclaimerSweep ==
    [][/\ GcCompletes =>
            /\ \A e \in AllEntries(store') : e[2] > gcnow
            /\ \A k \in DOMAIN store' : store'[k] # <<>>
            /\ \A k \in DOMAIN store :
                  Lookup(store', k) = Unexpired(store[k], gcnow)
            /\ DOMAIN store' \subseteq DOMAIN store
            /\ lock = GC /\ lock' = FREE
       /\ (gcpc = "swept" /\ gcpc' = "sample") =>
            /\ gcwake' = clock + Interval
            /\ lock # GC /\ store' = store
       /\ (gcpc = "sample" /\ gcpc' = "lock") =>
            /\ clock >= gcwake
            /\ gcnow' = clock]_vars

(* The reclaimer has completed a cycle after which nothing is left of the   *)
(* records that were put, one of them under a key no get was ever called    *)
(* on, with a TTL of 1.                                                     *)
C11_Witness ==
    /\ gcpc = "sample" /\ gcwake > Interval
    /\ store = EmptyStore
    /\ \E k \in DOMAIN everPut :
          /\ k # <<"a.", TypeA, ClassIN>>
          /\ \E i \in 1..Len(everPut[k]) :
                everPut[k][i][1].ttl = 1 /\ clock > everPut[k][i][2]

(* C12 (as claimed): put appends exactly one record, with expiry = the time  *)
(* it sampled + the record's ttl, to the bucket of the record's key, which  *)
(* it creates if absent, and changes no other bucket and no record already  *)
(* there; a record put with ttl 0 is never returned by any get.             *)
C12_PutAppends ==
    [][/\ \A w \in Workers : PutReturns(w) =>
            LET all == upstream_resp[w].answer \o upstream_resp[w].authority
                         \o upstream_resp[w].additional
                rr  == all[idx[w]]
                k   == <<ToText(rr.name), rr.rdtype, rr.rdclass>>
            IN  /\ k \in DOMAIN store'
                /\ store'[k] = Lookup(store, k) \o <<<<rr, expire[w]>>>>
                /\ expire[w] - rr.ttl * TicksPerSec \in 0..clock
                /\ DOMAIN store' = DOMAIN store \cup {k}
                /\ \A x \in DOMAIN store \ {k} : store'[x] = store[x]
       /\ \A w \in Workers : GetReturns(w) =>
            \A i \in 1..Len(entries'[w]) : entries'[w][i][1].ttl # 0]_vars

(* The threads that are inside a critical section on the Store. *)
InCS ==
    {w \in Workers : pc[w] \in {"get_cs", "put_cs"}}
    \cup (IF gcpc = "cs" THEN {GC} ELSE {})
    \cup (IF mainpc = "save_cs" THEN {MAIN} ELSE {})

(* C13: at most one of get, put, the gc sweep and save is inside its         *)
(* critical section at any time, and it is the thread that holds the lock;  *)
(* a worker holds the lock only inside get or put, so never while it        *)
(* decodes, waits for the upstream or sends.                                *)
C13_MutualExclusion ==
    /\ Cardinality(InCS) <= 1
    /\ InCS = (IF lock = FREE THEN {} ELSE {lock})
    /\ \A w \in Workers :
          pc[w] \in {"idle", "start", "get", "get_lock", "got", "upstream",
                     "put", "put_lock", "send"} => lock # w

(* save is inside its critical section while the reclaimer and a worker     *)
(* both wait for the lock.                                                  *)
C13_Witness ==
    /\ mainpc = "save_cs"
    /\ gcpc = "lock"
    /\ \E w \in Workers : pc[w] \in {"get_lock", "put_lock"}
    /\ \E w \in Workers : pc[w] = "upstream"

(* C14 (as claimed): a gc cycle that fails on a corrupt bucket does not stop  *)
(* the reclaimer: the lock is released, and the reclaimer goes on to its     *)
(* sleep, after which a later cycle runs.                                   *)
C14_ReclaimerSurvives ==
    [][(gcpc = "cs" /\ gcpc' # "cs") =>
          /\ lock' = FREE
          /\ gcpc' = "swept"]_vars

(* C15: under fair scheduling of the threads and of the lock, every get and  *)
(* every put that has started completes, the reclaimer running its cycle    *)
(* meanwhile; every sweep ends with the lock released, and the reclaimer    *)
(* never sleeps holding it; no thread asks for the lock while it holds it.  *)
C15_ForegroundProgress ==
    /\ \A w \in Workers : (pc[w] \in {"get_lock", "get_cs"}) ~> (pc[w] = "got")
    /\ \A w \in Workers : (pc[w] \in {"put_lock", "put_cs"}) ~> (pc[w] \in {"put", "send"})
    /\ (gcpc = "cs") ~> (gcpc = "sample" /\ lock # GC)
    /\ [](gcpc \in {"swept", "sample", "lock"} => lock # GC)
    /\ [](\A w \in Workers : pc[w] \in {"get_lock", "put_lock"} => lock # w)

(* A get and a put both wait for the lock while the reclaimer sweeps. *)
C15_Witness ==
    /\ gcpc = "cs" /\ lock = GC
    /\ \E w \in Workers : pc[w] = "get_lock"
    /\ \E w \in Workers : pc[w] = "put_lock"

(* The step in which worker w builds its hit reply. *)
BuildsHit(w) == pc[w] = "got" /\ pc'[w] = "send"

(* C16 (as claimed): the only effect of a get on the Store is removing      *)
(* records of its key: no key is added, every other bucket stays as it was, *)
(* and the bucket of its key keeps exactly the records found alive, each    *)
(* unchanged; building a hit reply changes nothing in the Store; and         *)
(* whatever is in the Store is, in payload, advertised TTL and expiry, a     *)
(* record exactly as it was put.                                             *)
C16_ReadsDoNotTaint ==
    [][/\ \A w \in Workers : GetReturns(w) =>
            /\ DOMAIN store' \subseteq DOMAIN store
            /\ \A k \in DOMAIN store \ {key[w]} : Lookup(store', k) = store[k]
            /\ Lookup(store', key[w]) = Unexpired(Lookup(store, key[w]), now[w])
       /\ \A w \in Workers : BuildsHit(w) => store' = store
       /\ \A k \in DOMAIN store' : \A i \in 1..Len(store'[k]) :
             \E j \in 1..Len(Lookup(everPut', k)) : everPut'[k][j] = store'[k][i]]_vars

(* C17: in every step, a bucket either stays as it is, or gets one record    *)
(* appended, or loses records in the get of its own key or in a gc sweep;   *)
(* what it loses are exactly its records with expiry <= the time that get   *)
(* or sweep sampled, a time that is not later than the current time: no     *)
(* record is removed while its expiry is still ahead.                       *)
C17_NoPrematureEviction ==
    [][\A k \in DOMAIN store :
          LET b == store[k]
              c == Lookup(store', k)
          IN  \/ c = b
              \/ Len(c) = Len(b) + 1 /\ SubSeq(c, 1, Len(b)) = b
              \/ /\ \E w \in Workers : GetReturns(w) /\ key[w] = k
                                        /\ now[w] <= clock
                                        /\ c = Unexpired(b, now[w])
                 /\ \A i \in 1..Len(b) : b[i][2] > clock =>
                       \E j \in 1..Len(c) : c[j] = b[i]
              \/ /\ GcCompletes /\ gcnow <= clock
                 /\ c = Unexpired(b, gcnow)
                 /\ \A i \in 1..Len(b) : b[i][2] > clock =>
                       \E j \in 1..Len(c) : c[j] = b[i]]_vars

(* The reclaimer has completed a cycle that removed a record, and a record  *)
(* that has expired by now is still in the Store: a sweep removes by the    *)
(* time it sampled, not by the time it runs.                                *)
C17_Witness ==
    /\ gcpc = "sample" /\ gcwake > 0
    /\ \E e \in AllEntries(store) : e[2] <= clock
    /\ \E e \in AllEntries(everPut) : e \notin AllEntries(store)

EmptyKeys(s) == {k \in DOMAIN s : s[k] = <<>>}

(* What happens to empty buckets, step by step. *)
C18_Safety ==
    [][/\ \A w \in Workers : GetReturns(w) =>
            (Unexpired(Lookup(store, key[w]), now[w]) = <<>> =>
                key[w] \in EmptyKeys(store'))
       /\ \A k \in EmptyKeys(store) :
             \/ k \in EmptyKeys(store')
             \/ /\ k \in DOMAIN store' /\ Len(store'[k]) = 1
                /\ \E w \in Workers : PutReturns(w) /\ key[w] = k
             \/ k \notin DOMAIN store' /\ GcCompletes
       /\ GcCompletes => EmptyKeys(store') = {}
       /\ gcpc' = "sample" => gcwake' <= clock' + Interval]_vars

(* C18 (as claimed): a get of a key with no live record (never put, or just  *)
(* deleted by the reclaimer) leaves the key mapped to an empty bucket; an   *)
(* empty bucket stays until a put fills it or a gc sweep completes, and     *)
(* every completed sweep leaves no empty bucket; no key stays mapped to an  *)
(* empty bucket forever.                                                    *)
C18_EmptyBucketsTransient ==
    /\ C18_Safety
    /\ \A k \in {KeyOf(n, TypeA, ClassIN) : n \in QNames} :
          (k \in EmptyKeys(store)) ~> (k \notin EmptyKeys(store))

(* C19: every request whose get returned nothing calls the upstream and puts *)
(* what it answers, whether or not another request does the same for the    *)
(* same key meanwhile; the bucket keeps every copy: as long as they are     *)
(* alive, the records put on a key are all in its bucket, in the order they *)
(* were put; a get returns every record that is alive when it returns, and  *)
(* the hit reply built from it has one answer per record returned.          *)
C19_ConcurrentMisses ==
    [][/\ \A k \in DOMAIN everPut' :
             Unexpired(everPut'[k], clock') = Unexpired(Lookup(store', k), clock')
       /\ \A w \in Workers :
             (pc[w] = "got" /\ entries[w] = <<>> /\ pc'[w] # "got") =>
                 pc'[w] = "upstream" /\ asked'[w] = 1
       /\ \A w \in Workers :
             (pc'[w] = "send" /\ upstream_resp'[w] # NoMsg) =>
                 /\ asked'[w] = 1
                 /\ Len(stored'[w]) = Len(upstream_resp'[w].answer)
                                        + Len(upstream_resp'[w].authority)
                                        + Len(upstream_resp'[w].additional)
       /\ \A w \in Workers : GetReturns(w) =>
             Len(entries'[w]) >=
                 Len(Unexpired(Lookup(everPut, key[w]), clock))
       /\ \A w \in Workers : BuildsHit(w) =>
             Len(resp'[w].answer) = Len(entries[w])]_vars

(* Two requests for one key both missed and both stored the upstream's      *)
(* answer; a third is a hit with the two copies, while the second of the    *)
(* two has not sent its reply yet.                                          *)
C19_Witness ==
    \E w, v \in Workers :
        /\ w # v
        /\ pc[w] = "send" /\ Len(entries[w]) = 2 /\ Len(resp[w].answer) = 2
        /\ resp[w].answer[1].rdata = resp[w].answer[2].rdata
        /\ pc[v] = "send" /\ asked[v] = 1 /\ Len(stored[v]) = 1
        /\ nreq = 3

====
